---------------------------- MODULE Spec2Model ----------------------------
(***************************************************************************)
(* A model of grapher.py: heart-rate streams of training activities are    *)
(* turned into minutes per heart-rate zone, accumulated per calendar day   *)
(* in a data frame, and fed to the fitness/fatigue recurrence.             *)
(*                                                                         *)
(* Conventions of the model                                                *)
(*  - Python floats are modelled by exact rationals [nan, n, d] in lowest  *)
(*    terms (d > 0); NaN is the value with nan = TRUE.  Rounding of        *)
(*    binary floating point is not modelled.                               *)
(*  - fitness, fatigue and performance hold sums of powers of              *)
(*    q = e^(-1/60).  They are kept symbolically as a set of terms         *)
(*    [e, c] standing for c * q^e, so that e^(-1/R1) = q^(60/R1) and       *)
(*    e^(-1/R2) = q^(60/R2) are exact.                                     *)
(*  - data_frame.loc[label] of the single-dtype frame built at line 101    *)
(*    is a view of the frame: assignments to the row at lines 65-72 are    *)
(*    assignments to the frame (the pandas behaviour the program relies    *)
(*    on).                                                                 *)
(*  - The interpreter is Python 3: / is true division.                     *)
(***************************************************************************)
EXTENDS Integers, Sequences, FiniteSets, TLC

\* Bounds of the model.
MaxActivities == 2      \* longest input list of the pipeline
MaxLen == 3             \* longest enumerated stream
MaxTime == 4            \* largest enumerated elapsed-time value
MaxValue == 12          \* largest heart-rate value given to get_zone
MaxHrMax == 10          \* largest hr_max given to get_zone

\* Program constants (grapher.py lines 11-14).
R1 == 60
R2 == 5

---------------------------------------------------------------------------
\* Exact arithmetic standing for Python's floats.

Abs(x) == IF x < 0 THEN -x ELSE x

RECURSIVE GCD(_, _)
GCD(a, b) == IF b = 0 THEN a ELSE GCD(b, a % b)

\* The rational n/d (d # 0) in lowest terms with a positive denominator.
Rat(n, d) ==
    LET g == GCD(Abs(n), Abs(d))
        s == IF d < 0 THEN -1 ELSE 1
    IN  [nan |-> FALSE, n |-> (s * n) \div g, d |-> (s * d) \div g]

NaN == [nan |-> TRUE, n |-> 0, d |-> 1]

Int2Num(i) == Rat(i, 1)

isnull(x) == x.nan

\* x + y over the least common denominator; NaN is absorbing.
NumAdd(x, y) ==
    IF x.nan \/ y.nan THEN NaN
    ELSE LET l == (x.d \div GCD(x.d, y.d)) * y.d
         IN  Rat(x.n * (l \div x.d) + y.n * (l \div y.d), l)

\* k * x for an integer k.
NumScale(k, x) == IF x.nan THEN NaN ELSE Rat(k * x.n, x.d)

\* x * y, reduced crosswise before the products are taken.
NumMul(x, y) ==
    IF x.nan \/ y.nan THEN NaN
    ELSE LET a == Rat(x.n, y.d)
             b == Rat(y.n, x.d)
         IN  Rat(a.n * b.n, a.d * b.d)

\* Comparisons with an integer c; every comparison with NaN is False.
NumGE(x, c) == ~x.nan /\ x.n >= c * x.d
NumLT(x, c) == ~x.nan /\ x.n < c * x.d

K1 == Rat(76, 10000)
K2 == Rat(20, 10000)

---------------------------------------------------------------------------
\* get_zone (lines 30-37).  hr_max = 0 raises ZeroDivisionError at line 31;
\* the callers test ZoneRaises before they use get_zone.

ZoneRaises(hr_max) == hr_max = 0

percentage(value, hr_max) ==
    IF value.nan THEN NaN ELSE Rat(value.n * 100, value.d * hr_max)

\* get_zone with the lower bound of zone 1 taken strictly.
get_zone_strict(value, hr_max) ==
    LET p == percentage(value, hr_max)
    IN  IF NumGE(p, 50) /\ p # Rat(50, 1) /\ NumLT(p, 60) THEN 1
        ELSE IF NumGE(p, 60) /\ NumLT(p, 70) THEN 2
        ELSE IF NumGE(p, 70) /\ NumLT(p, 80) THEN 3
        ELSE IF NumGE(p, 80) /\ NumLT(p, 90) THEN 4
        ELSE IF NumGE(p, 90) THEN 5
        ELSE 0

get_zone(value, hr_max) ==
    LET p == percentage(value, hr_max)
    IN  IF NumGE(p, 50) /\ NumLT(p, 60) THEN 1
        ELSE IF NumGE(p, 60) /\ NumLT(p, 70) THEN 2
        ELSE IF NumGE(p, 70) /\ NumLT(p, 80) THEN 3
        ELSE IF NumGE(p, 80) /\ NumLT(p, 90) THEN 4
        ELSE IF NumGE(p, 90) THEN 5
        ELSE 0

---------------------------------------------------------------------------
\* The per-activity series of process_activity (lines 47-59).

RECURSIVE SeqMax(_)
SeqMax(s) ==
    IF Len(s) = 1 THEN s[1]
    ELSE LET m == SeqMax(Tail(s)) IN IF s[1] >= m THEN s[1] ELSE m

\* The entries of s at the positions in keep, from position i on, in order.
RECURSIVE KeepPositions(_, _, _)
KeepPositions(s, keep, i) ==
    IF i > Len(s) THEN << >>
    ELSE (IF i \in keep THEN << s[i] >> ELSE << >>) \o KeepPositions(s, keep, i + 1)

\* pd.Series(hr_stream, index = time_stream) (line 47): entries [t, v] in
\* stream order.  Streams of different lengths raise ValueError.
SeriesRaises(hr_stream, time_stream) == Len(hr_stream) # Len(time_stream)

Series(hr_stream, time_stream) ==
    [i \in 1..Len(time_stream) |-> [t |-> time_stream[i], v |-> hr_stream[i]]]

\* Series.drop_duplicates() (line 50): the first entry of every VALUE is
\* kept, whatever its label; labels are not compared.
drop_duplicates(series) ==
    LET first == {i \in 1..Len(series) : \A j \in 1..(i - 1) : series[j].v # series[i].v}
    IN  KeepPositions(series, first, 1)

\* Series.reindex (line 53) raises ValueError when the labels are not
\* unique and the new index is not empty.
ReindexRaises(series, n) ==
    /\ n > 0
    /\ \E i, j \in 1..Len(series) : i # j /\ series[i].t = series[j].t

\* range(n + 1) in place of range(n).
reindex_inclusive(series, n) ==
    [i \in 1..(n + 1) |->
        IF \E k \in 1..Len(series) : series[k].t = i - 1
        THEN Int2Num(series[CHOOSE k \in 1..Len(series) : series[k].t = i - 1].v)
        ELSE NaN]

\* series.reindex(range(n)): position i holds second i - 1; seconds with no
\* entry hold NaN, entries with a label outside 0..n-1 are dropped.
reindex(series, n) ==
    [i \in 1..n |->
        IF \E k \in 1..Len(series) : series[k].t = i - 1
        THEN Int2Num(series[CHOOSE k \in 1..Len(series) : series[k].t = i - 1].v)
        ELSE NaN]

Valid(s) == {i \in 1..Len(s) : ~s[i].nan}
SetMax(S) == CHOOSE x \in S : \A y \in S : y <= x
SetMin(S) == CHOOSE x \in S : \A y \in S : x <= y

\* The value on the line through (lo, s[lo]) and (hi, s[hi]) at i.
Linear(s, lo, hi, i) ==
    NumAdd(NumMul(s[lo], Rat(hi - i, hi - lo)), NumMul(s[hi], Rat(i - lo, hi - lo)))

\* series.interpolate(method = "linear") (line 54), limit_direction
\* 'forward': a NaN between two valid values is interpolated linearly, a NaN
\* after the last valid value takes that value, a NaN before the first
\* valid value stays NaN.
interpolate(s) ==
    [i \in 1..Len(s) |->
        IF ~s[i].nan THEN s[i]
        ELSE LET before == {j \in Valid(s) : j < i}
                 after == {j \in Valid(s) : j > i}
             IN  IF before = {} THEN NaN
                 ELSE IF after = {} THEN s[SetMax(before)]
                 ELSE Linear(s, SetMax(before), SetMin(after), i)]

\* series.apply(lambda x: get_zone(x, hr_max)) (line 57).
apply_get_zone(s, hr_max) == [i \in 1..Len(s) |-> get_zone(s[i], hr_max)]

\* groupby(series.values).aggregate(lambda x: len(x) / 60) (lines 58-59):
\* a mapping from the zones that occur to the minutes spent in them.
aggregate(zones) ==
    LET present == {zones[i] : i \in 1..Len(zones)}
    IN  [z \in present |-> Rat(Cardinality({i \in 1..Len(zones) : zones[i] = z}), 60)]

EmptyBuild(e) ==
    [exc |-> e, raw |-> << >>, deduped |-> << >>, reindexed |-> << >>,
     interpolated |-> << >>, zones |-> << >>, agg |-> << >>]

\* Lines 47-59 for one activity: every intermediate value, or the
\* exception that ends the program.
BuildSeries(time_stream, hr_stream, hr_max) ==
    IF SeriesRaises(hr_stream, time_stream) THEN EmptyBuild("ValueError")
    ELSE
    LET raw == Series(hr_stream, time_stream)
        deduped == drop_duplicates(raw)
    IN  IF Len(time_stream) = 0 THEN EmptyBuild("ValueError")
        ELSE IF ReindexRaises(deduped, SeqMax(time_stream))
        THEN [EmptyBuild("ValueError") EXCEPT !.raw = raw, !.deduped = deduped]
        ELSE
        LET reindexed == reindex(deduped, SeqMax(time_stream))
            interpolated == interpolate(reindexed)
        IN  IF Len(interpolated) > 0 /\ ZoneRaises(hr_max)
            THEN [EmptyBuild("ZeroDivisionError") EXCEPT
                    !.raw = raw, !.deduped = deduped, !.reindexed = reindexed,
                    !.interpolated = interpolated]
            ELSE
            LET zones == apply_get_zone(interpolated, hr_max)
            IN  [exc |-> "", raw |-> raw, deduped |-> deduped,
                 reindexed |-> reindexed, interpolated |-> interpolated,
                 zones |-> zones, agg |-> aggregate(zones)]

---------------------------------------------------------------------------
\* Calendar dates: [y, m, d].  A start_date also carries its hour.

IsLeap(y) == (y % 4 = 0 /\ y % 100 # 0) \/ y % 400 = 0

DaysInMonth(y, m) ==
    IF m = 2 THEN (IF IsLeap(y) THEN 29 ELSE 28)
    ELSE IF m \in {4, 6, 9, 11} THEN 30 ELSE 31

NextDay(date) ==
    IF date.d < DaysInMonth(date.y, date.m) THEN [date EXCEPT !.d = date.d + 1]
    ELSE IF date.m < 12 THEN [y |-> date.y, m |-> date.m + 1, d |-> 1]
    ELSE [y |-> date.y + 1, m |-> 1, d |-> 1]

DateLT(a, b) ==
    \/ a.y < b.y
    \/ a.y = b.y /\ a.m < b.m
    \/ a.y = b.y /\ a.m = b.m /\ a.d < b.d

DateLE(a, b) == a = b \/ DateLT(a, b)

\* dateutil.parser.parse(text).date() (lines 62, 98): the date component of
\* the record's own date-time.
ParseDate(start_date) == [y |-> start_date.y, m |-> start_date.m, d |-> start_date.d]

\* date.strftime('%Y/%m/%d') (line 63): the text "YYYY/MM/DD" as its fields.
strftime(date) == << date.y, date.m, date.d >>

\* The timestamp a DatetimeIndex reads from the text "YYYY/MM/DD".
ParseLabel(text) == [y |-> text[1], m |-> text[2], d |-> text[3]]

\* pd.date_range(start, end) (line 100): every day from start through end,
\* in increasing order; empty when start is after end.
RECURSIVE date_range(_, _)
date_range(start, end) ==
    IF DateLT(end, start) THEN << >>
    ELSE << start >> \o date_range(NextDay(start), end)

---------------------------------------------------------------------------
\* Activity records as json.load returns them.  streams.kind is "missing"
\* (the record has no "streams" key), "null" ("streams": null) or "list";
\* an entry of the list is a dict (with or without "type" and "data") or
\* something that is not a dict.

Entry(type, data) ==
    [isDict |-> TRUE, hasType |-> TRUE, type |-> type, hasData |-> TRUE, data |-> data]
NonDictEntry ==
    [isDict |-> FALSE, hasType |-> FALSE, type |-> "", hasData |-> FALSE, data |-> << >>]
UntypedEntry ==
    [isDict |-> TRUE, hasType |-> FALSE, type |-> "", hasData |-> FALSE, data |-> << >>]

StreamList(items) == [kind |-> "list", items |-> items]
NoStreamsKey == [kind |-> "missing", items |-> << >>]
NullStreams == [kind |-> "null", items |-> << >>]

Returned(value) == [exc |-> "", none |-> FALSE, data |-> value]
ReturnedNone == [exc |-> "", none |-> TRUE, data |-> << >>]
Raised(e) == [exc |-> e, none |-> FALSE, data |-> << >>]

\* get_stream (lines 16-28).  data["streams"] of a record without the key
\* raises KeyError; filter over None and s["type"] of a non-dict raise
\* TypeError, which is caught (None is returned); s["type"] of a dict
\* without "type" and matches[0]["data"] of a dict without "data" raise
\* KeyError.  list(filter(...)) visits the entries in order, so the first
\* offending entry decides.
get_stream(data, stream) ==
    IF data.streams.kind = "missing" THEN Raised("KeyError")
    ELSE IF data.streams.kind = "null" THEN ReturnedNone
    ELSE
    LET items == data.streams.items
        bad == {k \in 1..Len(items) : ~items[k].isDict \/ ~items[k].hasType}
        matches == {k \in 1..Len(items) : items[k].type = stream}
    IN  IF bad # {}
        THEN (IF items[SetMin(bad)].isDict THEN Raised("KeyError") ELSE ReturnedNone)
        ELSE IF matches = {} THEN ReturnedNone
        ELSE IF ~items[SetMin(matches)].hasData THEN Raised("KeyError")
        ELSE Returned(items[SetMin(matches)].data)

---------------------------------------------------------------------------
\* Symbolic sums of powers of q = e^(-1/Lcm), Lcm the least common multiple
\* of R1 and R2: a set of terms [e, c], c # 0, standing for c * q^e.

Lcm == (R1 * R2) \div GCD(R1, R2)
Zero == Rat(0, 1)

PolyCoef(p, e) == IF \E t \in p : t.e = e THEN (CHOOSE t \in p : t.e = e).c ELSE Zero

\* The terms with exponents in exps and coefficients coef[e], zero terms left out.
PolyOf(exps, coef) == {[e |-> e, c |-> coef[e]] : e \in {x \in exps : coef[x] # Zero}}

Exps(p) == {t.e : t \in p}

\* p * e^(-1/R).
PolyDecay(p, R) == {[e |-> t.e + (Lcm \div R), c |-> t.c] : t \in p}

\* p + x for a number x.
PolyAddNum(p, x) ==
    PolyOf(Exps(p) \cup {0},
           [e \in Exps(p) \cup {0} |->
               IF e = 0 THEN NumAdd(PolyCoef(p, 0), x) ELSE PolyCoef(p, e)])

\* p * k for a number k.
PolyMulNum(p, k) ==
    PolyOf(Exps(p), [e \in Exps(p) |-> NumMul(PolyCoef(p, e), k)])

PolySub(p, r) ==
    PolyOf(Exps(p) \cup Exps(r),
           [e \in Exps(p) \cup Exps(r) |->
               NumAdd(PolyCoef(p, e), NumScale(-1, PolyCoef(r, e)))])

NaNPoly == [nan |-> TRUE, terms |-> {}]
PolyCell(p) == [nan |-> FALSE, terms |-> p]

---------------------------------------------------------------------------
\* The data frame: its DatetimeIndex and one row per index entry.  A cell
\* is NaN until it is set.  The "performance" column, which line 83 adds to
\* the frame, is NaN in the rows not visited yet.

Zones == 0..5

EmptyRow ==
    [id |-> NaN, name |-> NaN, tz |-> [k \in Zones |-> NaN], trimp |-> NaN,
     fitness |-> NaNPoly, fatigue |-> NaNPoly, form |-> NaN,
     performance |-> NaNPoly]

\* pd.DataFrame(index = pd.DatetimeIndex(date_range), columns = COLUMNS).
DataFrame(index) == [index |-> index, rows |-> [r \in 1..Len(index) |-> EmptyRow]]

\* The positions data_frame.loc[text] selects.
loc(frame, text) == {r \in 1..Len(frame.index) : frame.index[r] = ParseLabel(text)}

\* The new value replaces the cell.
accumulate_overwrite(current, tz) == tz

\* (current if not pd.isnull(current) else 0) + tz (line 72).
accumulate(current, tz) == NumAdd(IF ~isnull(current) THEN current ELSE Zero, tz)

\* agg[key] if key in agg else 0 (line 71).
ZoneMinutes(agg, key) == IF key \in DOMAIN agg THEN agg[key] ELSE Zero

Failed(e, frame) == [exc |-> e, skipped |-> FALSE, frame |-> frame, agg |-> << >>]

\* process_activity (lines 39-72): the frame after the call and the
\* aggregate it merged, or the exception that leaves it.  Every exception is raised before line 65, so
\* a call that raises leaves the frame as it was.
process_activity(frame, activity, hr_max) ==
    LET time_stream == get_stream(activity, "time")
        hr_stream == get_stream(activity, "heartrate")
    IN  IF time_stream.exc # "" THEN Failed(time_stream.exc, frame)
        ELSE IF hr_stream.exc # "" THEN Failed(hr_stream.exc, frame)
        ELSE IF time_stream.none \/ hr_stream.none
        THEN [exc |-> "", skipped |-> TRUE, frame |-> frame, agg |-> << >>]
        ELSE
        LET built == BuildSeries(time_stream.data, hr_stream.data, hr_max)
            activity_date == ParseDate(activity.start_date)
            found == loc(frame, strftime(activity_date))
        IN  IF built.exc # "" THEN Failed(built.exc, frame)
            ELSE IF found = {} THEN Failed("KeyError", frame)
            ELSE
            LET r == SetMin(found)
                row == frame.rows[r]
                new == [row EXCEPT
                          !.id = Int2Num(activity.id),
                          !.name = Int2Num(activity.name),
                          !.tz = [key \in Zones |->
                                    accumulate(row.tz[key], ZoneMinutes(built.agg, key))]]
            IN  [exc |-> "", skipped |-> FALSE,
                 frame |-> [frame EXCEPT !.rows[r] = new], agg |-> built.agg]

\* data_frame.fillna(0, inplace = True) (line 108).
FillPoly(c) == IF c.nan THEN PolyCell({}) ELSE c
FillNum(c) == IF isnull(c) THEN Zero ELSE c

fillna(frame) ==
    [frame EXCEPT !.rows = [r \in 1..Len(frame.rows) |->
        LET row == frame.rows[r]
        IN  [id |-> FillNum(row.id), name |-> FillNum(row.name),
             tz |-> [k \in Zones |-> FillNum(row.tz[k])],
             trimp |-> FillNum(row.trimp), fitness |-> FillPoly(row.fitness),
             fatigue |-> FillPoly(row.fatigue), form |-> FillNum(row.form),
             performance |-> row.performance]]]

\* tz1 + 2 tz2 + 3 tz3 + 4 tz4 + 5 tz5 (line 111).
trimp(tz) ==
    NumAdd(tz[1], NumAdd(NumScale(2, tz[2]), NumAdd(NumScale(3, tz[3]),
        NumAdd(NumScale(4, tz[4]), NumScale(5, tz[5])))))

set_trimp(frame) ==
    [frame EXCEPT !.rows = [r \in 1..Len(frame.rows) |->
        [frame.rows[r] EXCEPT !.trimp = trimp(frame.rows[r].tz)]]]

\* The running value restarted at every row.
decay_add_restart(running, R, load) == PolyAddNum({}, load)

\* running * np.exp(-1/R) + row["trimp"] (lines 78-79).
decay_add(running, R, load) == PolyAddNum(PolyDecay(running, R), load)

\* fitness * K1 - fatigue * K2 (line 80).
performance_of(fitness, fatigue) == PolySub(PolyMulNum(fitness, K1), PolyMulNum(fatigue, K2))

\* The loop of calculate_performance (lines 77-83) from row r on, with the
\* running fitness and fatigue of the rows before r.
RECURSIVE perf_rows(_, _, _, _)
perf_rows(rows, r, fitness, fatigue) ==
    IF r > Len(rows) THEN rows
    ELSE
    LET fit == decay_add(fitness, R1, rows[r].trimp)
        fat == decay_add(fatigue, R2, rows[r].trimp)
        new == [rows[r] EXCEPT !.fitness = PolyCell(fit), !.fatigue = PolyCell(fat),
                               !.performance = PolyCell(performance_of(fit, fat))]
    IN  perf_rows([rows EXCEPT ![r] = new], r + 1, fit, fat)

\* calculate_performance (lines 74-83).
calculate_performance(frame) == [frame EXCEPT !.rows = perf_rows(frame.rows, 1, {}, {})]

---------------------------------------------------------------------------
\* Inputs.

FirstDate == [y |-> 2022, m |-> 12, d |-> 31]

\* Activities start on one of three consecutive days, across the turn of
\* the year; the program runs on the second or on the third of them.
Dates == {FirstDate, NextDay(FirstDate), NextDay(NextDay(FirstDate))}
Todays == {NextDay(FirstDate), NextDay(NextDay(FirstDate))}

HrMaxInputs == {180, 0, -180}

BothStreams(time, hr) == StreamList(<< Entry("time", time), Entry("heartrate", hr) >>)

SteadyStreams == BothStreams(<< 0, 1, 2, 3, 4, 5 >>, << 90, 90, 90, 90, 90, 90 >>)
GappedStreams == BothStreams(<< 0, 2, 4 >>, << 100, 120, 140 >>)
MixedStreams == BothStreams(<< 0, 1, 2 >>, << 80, 150, 170 >>)
TimeOnlyStreams == StreamList(<< Entry("time", << 0, 1, 2 >>), Entry("distance", << 0, 5, 9 >>) >>)
CorruptStreams == StreamList(<< Entry("time", << 0, 1, 2 >>), NonDictEntry >>)
UntypedStreams == StreamList(<< UntypedEntry, Entry("heartrate", << 100, 120 >>) >>)

StreamShapes ==
    << SteadyStreams, GappedStreams, MixedStreams, TimeOnlyStreams, CorruptStreams,
       NullStreams, NoStreamsKey, UntypedStreams >>

Activities ==
    {[id |-> k, name |-> 100 + k,
      start_date |-> [y |-> date.y, m |-> date.m, d |-> date.d, hh |-> 23],
      streams |-> StreamShapes[k]] : k \in 1..Len(StreamShapes), date \in Dates}

Inputs == UNION {[1..n -> Activities] : n \in 0..MaxActivities}

SeqsOf(S, n) == [1..n -> S]

HrValues == {100, 120, 140}

Idle ==
    [op |-> "idle", applied |-> FALSE, value |-> Zero, hr_max |-> 0, time |-> << >>,
     hr |-> << >>, zone |-> 0, out |-> EmptyBuild("")]

ZoneCall(value, m) == [Idle EXCEPT !.op = "zone", !.value = value, !.hr_max = m]

SeriesCall(time, hr, m) ==
    [Idle EXCEPT !.op = "series", !.time = time, !.hr = hr, !.hr_max = m]

---------------------------------------------------------------------------
VARIABLES
    pc,          \* position of the module-level code
    hr_max,      \* args.hr_max
    data,        \* the activities read from the input file
    today,       \* datetime.date.today()
    data_frame,  \* the daily table
    next,        \* position in data of the activity the loop handles next
    error,       \* the exception that ended the program, "" while it runs
    merged,      \* history: the date and aggregate of every call that was not skipped
    call         \* one call of get_zone or of the series builder

vars == << pc, hr_max, data, today, data_frame, next, error, merged, call >>

NoFrame == DataFrame(<< >>)

\* The program after parse_args and json.load (lines 91-95).
Init ==
    /\ pc = "build"
    /\ hr_max \in HrMaxInputs
    /\ data \in Inputs
    /\ today \in Todays
    /\ data_frame = NoFrame
    /\ next = 1
    /\ error = ""
    /\ merged = << >>
    /\ call = Idle

\* Lines 98-101; data[0] of an empty list raises IndexError.
BuildFrame ==
    /\ pc = "build"
    /\ IF Len(data) = 0
       THEN /\ pc' = "crashed"
            /\ error' = "IndexError"
            /\ UNCHANGED data_frame
       ELSE /\ pc' = "loop"
            /\ data_frame' = DataFrame(date_range(ParseDate(data[1].start_date), today))
            /\ UNCHANGED error
    /\ UNCHANGED << hr_max, data, today, next, merged, call >>

\* One iteration of the loop at lines 104-105.
ProcessActivity ==
    /\ pc = "loop"
    /\ next <= Len(data)
    /\ LET result == process_activity(data_frame, data[next], hr_max)
       IN  IF result.exc # ""
           THEN /\ pc' = "crashed"
                /\ error' = result.exc
                /\ UNCHANGED << data_frame, next, merged >>
           ELSE /\ data_frame' = result.frame
                /\ next' = next + 1
                /\ merged' = IF result.skipped THEN merged
                             ELSE Append(merged,
                                         [date |-> ParseDate(data[next].start_date),
                                          agg |-> result.agg])
                /\ UNCHANGED << pc, error >>
    /\ UNCHANGED << hr_max, data, today, call >>

\* Line 108, once the loop has ended.
FillNa ==
    /\ pc = "loop"
    /\ next > Len(data)
    /\ data_frame' = fillna(data_frame)
    /\ pc' = "trimp"
    /\ UNCHANGED << hr_max, data, today, next, error, merged, call >>

\* Line 111.
ComputeTrimp ==
    /\ pc = "trimp"
    /\ data_frame' = set_trimp(data_frame)
    /\ pc' = "performance"
    /\ UNCHANGED << hr_max, data, today, next, error, merged, call >>

\* Line 113; the finished table goes to the plots.
CalculatePerformance ==
    /\ pc = "performance"
    /\ data_frame' = calculate_performance(data_frame)
    /\ pc' = "done"
    /\ UNCHANGED << hr_max, data, today, next, error, merged, call >>

Next == BuildFrame \/ ProcessActivity \/ FillNa \/ ComputeTrimp \/ CalculatePerformance

Spec == Init /\ [][Next]_vars

\* get_zone and the series builder applied to enumerated arguments.
InitCall ==
    /\ pc = "call"
    /\ hr_max = 0
    /\ data = << >>
    /\ today = FirstDate
    /\ data_frame = NoFrame
    /\ next = 1
    /\ error = ""
    /\ merged = << >>
    /\ \/ \E n \in (-1)..MaxValue, d \in 1..2, m \in (-2)..MaxHrMax :
             call = ZoneCall(Rat(n, d), m)
       \/ \E n \in 0..MaxLen :
             \E time \in SeqsOf(0..MaxTime, n), hr \in SeqsOf(HrValues, n), m \in {180, 0} :
                call = SeriesCall(time, hr, m)

CallGetZone ==
    /\ call.op = "zone"
    /\ ~call.applied
    /\ call' = [call EXCEPT !.applied = TRUE,
                            !.zone = IF ZoneRaises(call.hr_max) THEN -1
                                     ELSE get_zone(call.value, call.hr_max)]
    /\ error' = IF ZoneRaises(call.hr_max) THEN "ZeroDivisionError" ELSE ""
    /\ UNCHANGED << pc, hr_max, data, today, data_frame, next, merged >>

CallBuildSeries ==
    /\ call.op = "series"
    /\ ~call.applied
    /\ LET out == BuildSeries(call.time, call.hr, call.hr_max)
       IN  /\ call' = [call EXCEPT !.applied = TRUE, !.out = out]
           /\ error' = out.exc
    /\ UNCHANGED << pc, hr_max, data, today, data_frame, next, merged >>

NextCall == CallGetZone \/ CallBuildSeries

SpecCall == InitCall /\ [][NextCall]_vars

---------------------------------------------------------------------------
\* Properties.

FrameBuilt ==
    \/ pc \in {"loop", "trimp", "performance", "done"}
    \/ pc = "crashed" /\ error # "IndexError"

Rows == data_frame.rows

\* The sum of f[x] over x in S.
RECURSIVE SumOver(_, _)
SumOver(S, f) ==
    IF S = {} THEN Zero
    ELSE LET x == CHOOSE y \in S : TRUE IN NumAdd(f[x], SumOver(S \ {x}, f))

January1st == [y |-> 2023, m |-> 1, d |-> 1]

\* The run of the end-to-end scenario: one activity on 2023-01-01 with time
\* stream [0..5] and a constant heart rate of 90, hr_max = 180.
SteadyRun ==
    /\ hr_max = 180
    /\ Len(data) = 1
    /\ data[1].streams = SteadyStreams
    /\ ParseDate(data[1].start_date) = January1st

SteadyRow(minutes) ==
    /\ data_frame.index[1] = January1st
    /\ Rows[1].tz = [k \in Zones |-> IF k = 1 THEN minutes ELSE Zero]
    /\ Rows[1].trimp = minutes
    /\ Rows[1].fitness = PolyCell({[e |-> 0, c |-> minutes]})
    /\ Rows[1].fatigue = PolyCell({[e |-> 0, c |-> minutes]})

\* C1 as stated: the scenario ends with tz1 = 6/60 = 0.1 minutes, every
\* other zone 0, trimp = 0.1, fitness = 0.1 and fatigue = 0.1 in the row of
\* 2023-01-01.
C1_SixSamplesCounted == (SteadyRun /\ pc = "done") => SteadyRow(Rat(6, 60))

\* C1 amended: the dense domain is range(max(time)) = [0, 5), so five
\* seconds are counted: the scenario ends with tz1 = 5/60 minutes, every
\* other zone 0, trimp = fitness = fatigue = 5/60.
C1_FiveSecondsCounted == (SteadyRun /\ pc = "done") => SteadyRow(Rat(5, 60))

C1_Witness == SteadyRun /\ pc = "done" /\ Rows[1].id = Int2Num(1)

\* C2: at every point of the run, every cell tzk of every row holds (an
\* unset cell counting as 0) the sum of the zone-k minutes (0 for a zone
\* the aggregate does not hold) of the calls that were not skipped and whose
\* activity starts on the row's date.
C2_CellsAreSums ==
    FrameBuilt =>
        \A r \in 1..Len(Rows) : \A k \in Zones :
            LET part == [j \in 1..Len(merged) |->
                            IF merged[j].date = data_frame.index[r]
                            THEN (IF k \in DOMAIN merged[j].agg THEN merged[j].agg[k] ELSE Zero)
                            ELSE Zero]
            IN  FillNum(Rows[r].tz[k]) = SumOver(1..Len(merged), part)

\* Two calls for the same activity on one day: its 3/60 minutes in zone 2
\* are counted twice.
C2_Witness ==
    /\ pc = "done"
    /\ hr_max = 180
    /\ Len(data) = 2
    /\ data[1] = data[2]
    /\ data[1].streams = GappedStreams
    /\ Len(merged) = 2
    /\ \E r \in 1..Len(Rows) : Rows[r].tz[2] = Rat(6, 60)

\* An activity record process_activity is to skip: no stream collection, a
\* malformed entry, or no "time" or no "heartrate" stream.
Unusable(activity) ==
    \/ activity.streams.kind # "list"
    \/ \E e \in {activity.streams.items[k] : k \in 1..Len(activity.streams.items)} :
          ~e.isDict \/ ~e.hasType \/ ~e.hasData
    \/ \E name \in {"time", "heartrate"} :
          \A k \in 1..Len(activity.streams.items) : activity.streams.items[k].type # name

\* C3: get_stream returns None for an unusable record and never raises to
\* its caller, so the program never ends at such a record: the call for it
\* returns and the activities after it are still processed.
C3_SkipAndContinue ==
    (pc = "crashed" /\ FrameBuilt /\ next <= Len(data)) => ~Unusable(data[next])

\* C4: for m > 0, get_zone(v, m) is the zone of the band that holds
\* p = 100 v / m: 0 below 50, k in 1..4 for 40 + 10k <= p < 50 + 10k, 5
\* from 90 on; a boundary belongs to the higher zone.
C4_ZoneBands ==
    (call.op = "zone" /\ call.applied /\ call.hr_max > 0) =>
        LET hundredV == 100 * call.value.n
            unit == call.value.d * call.hr_max
            z == call.zone
        IN  /\ z \in Zones
            /\ z = 0 <=> hundredV < 50 * unit
            /\ \A k \in 1..4 :
                  z = k <=> ((40 + 10 * k) * unit <= hundredV /\ hundredV < (50 + 10 * k) * unit)
            /\ z = 5 <=> hundredV >= 90 * unit

\* A value at exactly 50 percent is put in zone 1.
C4_Witness ==
    /\ call.op = "zone"
    /\ call.applied
    /\ call.hr_max > 0
    /\ 100 * call.value.n = 50 * call.value.d * call.hr_max
    /\ call.zone = 1

RECURSIVE MinDate(_)
MinDate(s) ==
    IF Len(s) = 1 THEN ParseDate(s[1].start_date)
    ELSE LET m == MinDate(Tail(s))
             h == ParseDate(s[1].start_date)
         IN  IF DateLE(h, m) THEN h ELSE m

\* C5: the table has one row for every date from the earliest start date of
\* the input through today, so the lookup of an activity that does not
\* start after today never fails.
C5_DenseFromEarliest ==
    FrameBuilt =>
        /\ data_frame.index = date_range(MinDate(data), today)
        /\ \A j \in 1..Len(data) :
              DateLE(ParseDate(data[j].start_date), today) =>
                  loc(data_frame, strftime(ParseDate(data[j].start_date))) # {}

\* C6: with hr_max <= 0 no row is ever modified and no table is finished.
C6_DegenerateRejected ==
    hr_max <= 0 =>
        /\ pc \notin {"trimp", "performance", "done"}
        /\ \A r \in 1..Len(Rows) : Rows[r] = EmptyRow

GapScenario ==
    /\ call.op = "series"
    /\ call.applied
    /\ call.time = << 0, 2, 4 >>
    /\ call.hr = << 100, 120, 140 >>
    /\ call.hr_max = 180

\* C7: for time [0,2,4] and heart rate [100,120,140] the series over
\* [0,1,2,3] holds 110 at second 1 and 130 at second 3.
C7_GapFilled ==
    GapScenario =>
        /\ call.out.exc = ""
        /\ Len(call.out.interpolated) = 4
        /\ call.out.interpolated[2] = Int2Num(110)
        /\ call.out.interpolated[4] = Int2Num(130)

SeriesBuilt == call.op = "series" /\ call.applied /\ call.hr_max = 180 /\ Len(call.time) > 0

\* No elapsed time and no heart rate occurs twice in the streams.
NoRepeats ==
    \A i, j \in 1..Len(call.time) :
        i # j => (call.time[i] # call.time[j] /\ call.hr[i] # call.hr[j])

Times == {call.time[i] : i \in 1..Len(call.time)}

\* C8: after the duplicate removal there is exactly one entry for every
\* distinct elapsed time, the reindexing does not fail, and a second of the
\* domain that occurs in the time stream is classified from a heart rate
\* recorded at that second.
C8_DedupByTime ==
    SeriesBuilt =>
        /\ {call.out.deduped[i].t : i \in 1..Len(call.out.deduped)} = Times
        /\ Len(call.out.deduped) = Cardinality(Times)
        /\ call.out.exc = ""
        /\ \A i \in 1..Len(call.out.interpolated) :
              (i - 1) \in Times =>
                  \E j \in 1..Len(call.time) :
                      /\ call.time[j] = i - 1
                      /\ call.out.interpolated[i] = Int2Num(call.hr[j])

\* C9: the seconds before the first and after the last known sample of the
\* domain are not classified: the minutes of the six zones add up to the
\* seconds from the first to the last known sample (stated for streams
\* without repeated times or heart rates, where the duplicate removal
\* removes nothing).
C9_GapsExcluded ==
    (SeriesBuilt /\ NoRepeats /\ call.out.exc = "") =>
        LET known == Valid(call.out.reindexed)
            span == IF known = {} THEN 0 ELSE SetMax(known) - SetMin(known) + 1
        IN  SumOver(DOMAIN call.out.agg, call.out.agg) = Rat(span, 60)

\* The sum over the rows j <= r of trimp_j * q^((r - j) * step).
Discounted(r, step) ==
    {[e |-> (r - j) * step, c |-> Rows[j].trimp] : j \in {i \in 1..r : Rows[i].trimp # Zero}}

\* C10: the derived columns are unset or 0 until every activity is merged
\* and the unset cells are filled; in the finished table every row has
\* trimp = tz1 + 2 tz2 + 3 tz3 + 4 tz4 + 5 tz5, fitness and fatigue are the
\* trimp of the row and of the earlier rows discounted by e^(-1/60) and
\* e^(-1/5) per day, performance = K1 fitness - K2 fatigue, and all three
\* are 0 up to the first row with a trimp.
C10_DerivedColumns ==
    /\ (FrameBuilt /\ pc \notin {"performance", "done"}) =>
          \A r \in 1..Len(Rows) : Rows[r].trimp \in {NaN, Zero}
    /\ (FrameBuilt /\ pc # "done") =>
          \A r \in 1..Len(Rows) :
              /\ Rows[r].fitness \in {NaNPoly, PolyCell({})}
              /\ Rows[r].fatigue \in {NaNPoly, PolyCell({})}
              /\ Rows[r].performance = NaNPoly
    /\ pc = "done" =>
          \A r \in 1..Len(Rows) :
              LET tz == Rows[r].tz
                  load == SumOver(1..5, [k \in 1..5 |-> NumScale(k, tz[k])])
                  fit == Discounted(r, 1)
                  fat == Discounted(r, 12)
              IN  /\ Rows[r].trimp = load
                  /\ Rows[r].fitness = PolyCell(fit)
                  /\ Rows[r].fatigue = PolyCell(fat)
                  /\ Rows[r].performance =
                        PolyCell(PolySub(PolyMulNum(fit, Rat(76, 10000)),
                                         PolyMulNum(fat, Rat(20, 10000))))
                  /\ (\A j \in 1..r : Rows[j].trimp = Zero) =>
                        /\ Rows[r].fitness = PolyCell({})
                        /\ Rows[r].fatigue = PolyCell({})
                        /\ Rows[r].performance = PolyCell({})

\* A finished table whose first two rows both carry a training load, the
\* second with time in zone 0 as well.
C10_Witness ==
    /\ pc = "done"
    /\ Len(Rows) >= 2
    /\ Rows[1].trimp # Zero
    /\ Rows[2].trimp # Zero
    /\ Rows[2].tz[0] # Zero

===========================================================================
